---- MODULE Spec2Model ----
(***************************************************************************)
(* A model of espresso, the JNLP launcher of src/main.go.                  *)
(*                                                                         *)
(* Two specifications share the module.                                    *)
(*   SpecCache  download() called repeatedly for one URL and one local     *)
(*              file, against an unchanged remote resource, under every    *)
(*              outcome of the file-system and network operations.         *)
(*   Spec       run(): the root runJnlp call, the runResource goroutines   *)
(*              and the extension runJnlp goroutines it starts, the        *)
(*              WaitGroup join, the error check and the launch.            *)
(*                                                                         *)
(* Go strings are TLA+ strings; a string that the program builds by        *)
(* joining pieces (jars, nativelibs) is the sequence of its pieces, the    *)
(* list separator being a piece of its own, so that its elements can be    *)
(* counted.                                                                *)
(***************************************************************************)
EXTENDS Integers, Sequences, FiniteSets, TLC

VARIABLES
    \* ---- SpecCache: one cached file and its remote resource
    cfile,        \* the local file download() is called for
    srv,          \* the remote resource: body length, Content-Length declared or not
    calls,        \* one record per finished download() call
    \* ---- Spec: the state of run()
    site,         \* what the network serves: the descriptors, by address
    runPc,        \* position of the main goroutine in run()
    invs,         \* the runJnlp invocations (1 is the root call of run())
    tasks,        \* the runResource calls
    wg,           \* counter of the WaitGroup wg
    mutex,        \* holder of mutex (0: unlocked)
    jars,         \* the global jars, as the sequence of its pieces
    nativelibs,   \* the global nativelibs, as the sequence of its pieces
    maxheapsize,  \* the global maxheapsize
    jrepath,      \* the flag value *jrepath
    operatingsystem, \* the global operatingsystem
    channelError, \* the errors added to run()'s ChannelError, in order
    command,      \* the argument vector run() built (<<>> before)
    exitCode      \* "running", "0", "1": how the process ended

cacheVars == <<cfile, srv, calls>>
runVars == <<site, runPc, invs, tasks, wg, mutex, jars, nativelibs, maxheapsize,
             jrepath, operatingsystem, channelError, command, exitCode>>
vars == <<cfile, srv, calls, site, runPc, invs, tasks, wg, mutex, jars, nativelibs,
          maxheapsize, jrepath, operatingsystem, channelError, command, exitCode>>

(***************************************************************************)
(* Bounds of the model.                                                    *)
(***************************************************************************)
\* Lengths of files and of response bodies range over 0..MaxLen.
MaxLen == 2
\* download() is called at most MaxCalls times in a row in SpecCache.
MaxCalls == 2

\* http.StatusOK
StatusOK == 200

\* The statuses a server answers a GET with.
Statuses == {StatusOK, 404}

(***************************************************************************)
(* The Cache Reconciler: download(href, filename).                         *)
(***************************************************************************)

\* A file that does not exist.
NoFile == [exists |-> FALSE, len |-> 0, src |-> "none", mtime |-> "none"]

\* The operation of download() that fails in one call ("none": none does).
\* The first failure ends the call, so one failing operation per call is all
\* there is to choose.
FailPoints == {"none", "exists", "head", "size", "get", "mkdir", "create", "copy"}

\* What the environment decides in one call of download(): the operation
\* that fails, the status of the GET's response, and the length of the body
\* of a response that is not the resource (an error page).
Envs == [fail : FailPoints, status : Statuses, errLen : 0..MaxLen]

\* response.Header.Get("Content-Length") of the HEAD response: the length
\* of the body, or the empty string when the server declares none.
HeadContentLength(s) ==
    IF s.declares THEN [empty |-> FALSE, digits |-> s.len]
    ELSE [empty |-> TRUE, digits |-> 0]

\* strconv.ParseInt(header, 10, 64) with its error dropped: 0 when the
\* header is not a number.
ParseContentLength(h) == IF h.empty THEN 0 ELSE h.digits

\* common.FileSize(filename) of an existing file.
FileSize(f) == f.len

\* A mutant of MustDownload: the modification time decides too.
MustDownloadIfOlder(f, s) ==
    FileSize(f) # ParseContentLength(HeadContentLength(s)) /\ f.mtime = "older"

\* mustDownload = fs != contentLength
MustDownload(f, s) == FileSize(f) # ParseContentLength(HeadContentLength(s))

\* The body of the GET response: the resource under StatusOK, and whatever
\* the server sends with another status. The status is not looked at.
ResponseBody(s, env) ==
    IF env.status = StatusOK THEN [len |-> s.len, src |-> "remote"]
    ELSE [len |-> env.errLen, src |-> "errpage"]

\* common.FileStore(filename, response.Body): the file is created or
\* truncated and the body copied into it.
FileStore(f, body, env) ==
    CASE env.fail = "create" -> f
      [] env.fail = "copy" ->
            [exists |-> TRUE, len |-> 0, src |-> "partial", mtime |-> "new"]
      [] OTHER ->
            [exists |-> TRUE, len |-> body.len, src |-> body.src, mtime |-> "new"]

\* The result of download() as a record: returned error ("nil" for none),
\* the file afterwards, the HEAD and GET requests issued, whether the
\* lengths were compared.
Outcome(e, f, h, g, c) ==
    [err |-> e, file |-> f, heads |-> h, gets |-> g, compared |-> c]

\* download(href, filename)
Download(f, s, env) ==
    IF env.fail = "exists"
    THEN Outcome("nil", f, 0, 0, FALSE)                 \* err != nil: return nil
    ELSE LET b == f.exists IN
    IF b /\ env.fail = "head" THEN Outcome("head", f, 1, 0, FALSE)
    ELSE IF b /\ env.fail = "size" THEN Outcome("size", f, 1, 0, FALSE)
    ELSE LET mustDownload == IF b THEN MustDownload(f, s) ELSE TRUE
             heads == IF b THEN 1 ELSE 0
         IN
    IF ~mustDownload THEN Outcome("nil", f, heads, 0, b)
    ELSE IF env.fail = "get" THEN Outcome("get", f, heads, 1, b)
    ELSE IF env.fail = "mkdir" THEN Outcome("mkdir", f, heads, 1, b)
    ELSE LET stored == FileStore(f, ResponseBody(s, env), env) IN
    IF env.fail \in {"create", "copy"}
    THEN Outcome("store", stored, heads, 1, b)
    ELSE Outcome("nil", stored, heads, 1, b)

(***************************************************************************)
(* SpecCache: download() called up to MaxCalls times for the same URL and  *)
(* the same local file; the remote resource does not change.               *)
(***************************************************************************)

\* The local file before the first call: absent, or present with any length
\* and either older or newer than the remote resource; a present file whose
\* length is the remote one may hold the remote content or another one.
InitialFiles(s) ==
    {NoFile}
    \cup [exists : {TRUE}, len : 0..MaxLen, src : {"old"}, mtime : {"older", "newer"}]
    \cup [exists : {TRUE}, len : {s.len}, src : {"remote"}, mtime : {"older", "newer"}]

\* The variables of run() while only download() is exercised.
RunIdle ==
    /\ site = "none"
    /\ runPc = "idle"
    /\ invs = <<>>
    /\ tasks = <<>>
    /\ wg = 0
    /\ mutex = 0
    /\ jars = <<>>
    /\ nativelibs = <<>>
    /\ maxheapsize = ""
    /\ jrepath = ""
    /\ operatingsystem = ""
    /\ channelError = <<>>
    /\ command = <<>>
    /\ exitCode = "running"

InitCache ==
    /\ srv \in [len : 0..MaxLen, declares : BOOLEAN]
    /\ cfile \in InitialFiles(srv)
    /\ calls = <<>>
    /\ RunIdle

\* One call of download(href, filename), from entry to return.
DownloadCall ==
    /\ Len(calls) < MaxCalls
    /\ \E env \in Envs :
          LET o == Download(cfile, srv, env) IN
          /\ cfile' = o.file
          /\ calls' = Append(calls, [before |-> cfile, fail |-> env.fail, out |-> o])
    /\ UNCHANGED <<srv, runVars>>

NextCache == DownloadCall

SpecCache == InitCache /\ [][NextCache]_vars

(***************************************************************************)
(* Strings, URLs and paths of the Resolution Engine.                       *)
(***************************************************************************)

\* strings.ToLower on the OS and architecture names of the model.
ToLower(x) ==
    CASE x \in {"linux", "Linux", "LINUX"} -> "linux"
      [] x \in {"windows", "Windows", "WINDOWS"} -> "windows"
      [] x \in {"mac os x", "Mac OS X", "MAC OS X"} -> "mac os x"
      [] x \in {"amd64", "Amd64", "AMD64"} -> "amd64"
      [] x \in {"x86", "X86"} -> "x86"
      [] OTHER -> x

\* strings.ToTitle: every letter mapped to its title case.
ToTitle(x) ==
    CASE ToLower(x) = "linux" -> "LINUX"
      [] ToLower(x) = "windows" -> "WINDOWS"
      [] ToLower(x) = "mac os x" -> "MAC OS X"
      [] ToLower(x) = "amd64" -> "AMD64"
      [] ToLower(x) = "x86" -> "X86"
      [] OTHER -> x

\* strings.Title: the first letter of each word in title case.
Title(x) ==
    CASE x = "linux" -> "Linux"
      [] x = "windows" -> "Windows"
      [] x = "mac os x" -> "Mac Os X"
      [] x = "amd64" -> "Amd64"
      [] x = "x86" -> "X86"
      [] OTHER -> x

\* common.CompareIgnoreCase
CompareIgnoreCase(a, b) == ToLower(a) = ToLower(b)

\* The hrefs url.Parse rejects (an invalid escape).
BadHrefs == {"%zz.jar"}

\* strings.HasSuffix(path, ".zip") and (path, ".exe"), by the href the path
\* ends with.
HasSuffixZip(href) == href \in {"n.zip"}
HasSuffixExe(href) == href \in {"jre.exe", "bin/jre.exe"}

\* A URL: host, directory and last segment. URL.String().
URLString(u) == "http://" \o u.host \o u.dir \o "/" \o u.file

\* u.Parse(codebase + "/" + href): the codebase is an absolute URL, so the
\* result is the codebase with the href appended; ok is FALSE when the href
\* does not parse.
ParseRef(codebase, href) ==
    [ok |-> href \notin BadHrefs,
     url |-> [host |-> codebase.host, dir |-> codebase.dir, file |-> href]]

\* codebase := jnlp.Codebase, or the address up to its last "/" when empty.
Codebase(doc, address) ==
    IF doc.codebase.empty
    THEN [empty |-> FALSE, host |-> address.host, dir |-> address.dir]
    ELSE doc.codebase

\* filepath.Join of two elements: an empty element is ignored.
FilepathJoin(a, b) ==
    IF b = "" THEN a ELSE IF a = "" THEN b ELSE a \o "/" \o b

\* filepath.Dir(filepath.Join(dir, name)) for a name without separator.
FilepathDir(dir, name) == dir

\* The last segment of the href of a private JRE (the text after the last "/").
JreFilename(href) == IF href = "bin/jre.exe" THEN "jre.exe" ELSE href

\* common.Trim4Path of a host name made of letters only.
Trim4Path(host) == host

\* The value of the flag -cache.
CacheRoot == "/cache"

\* The address given to run().
RootAddress == [host |-> "h", dir |-> "/app", file |-> "root.jnlp"]
ExtAddress == [host |-> "h", dir |-> "/app", file |-> "ext.jnlp"]

\* The address of an extension on another host than the root's.
CdnExtAddress == [host |-> "cdn", dir |-> "/lib", file |-> "ext.jnlp"]

\* A mutant of JnlpPath: the directory is keyed by the host of the root
\* descriptor for every invocation.
JnlpPathOfRoot(address) == FilepathJoin(CacheRoot, Trim4Path(RootAddress.host))

\* jnlpPath := filepath.Join(*cache, common.Trim4Path(u.Host))
JnlpPath(address) == FilepathJoin(CacheRoot, Trim4Path(address.host))

\* appPath := filepath.Join(jnlpPath, "app")
AppPath(address) == FilepathJoin(JnlpPath(address), "app")

\* string(filepath.ListSeparator)
ListSeparator == ":"

\* strings.Join([]string{a, b}, sep) on strings kept as sequences of pieces.
StringsJoin(a, b, sep) == a \o <<sep>> \o b

\* The Go string a sequence of pieces stands for.
RECURSIVE Render(_)
Render(pieces) ==
    IF pieces = <<>> THEN "" ELSE Head(pieces) \o Render(Tail(pieces))

\* The elements of a list-separated string: the text between separators.
RECURSIVE Elements(_, _)
Elements(pieces, current) ==
    IF pieces = <<>> THEN <<current>>
    ELSE IF Head(pieces) = ListSeparator
         THEN <<current>> \o Elements(Tail(pieces), "")
         ELSE Elements(Tail(pieces), current \o Head(pieces))

(***************************************************************************)
(* Descriptors (type Jnlp) and what the network serves.                    *)
(***************************************************************************)

\* type Resource
Resource(os, arch, jarHrefs, extensionHrefs, nativelibHrefs, j2se, java) ==
    [os |-> os, arch |-> arch, jars |-> jarHrefs, extensions |-> extensionHrefs,
     nativelibs |-> nativelibHrefs, j2se |-> j2se, java |-> java]

\* type PrivateJre
PrivateJre(os, arch, href) == [os |-> os, arch |-> arch, href |-> href]

\* type Jnlp
Jnlp(codebase, resources, privateJres, appMain, appArgs, appletMain, appletParams) ==
    [codebase |-> codebase, resources |-> resources, privateJres |-> privateJres,
     appMain |-> appMain, appArgs |-> appArgs,
     appletMain |-> appletMain, appletParams |-> appletParams]

NoCodebase == [empty |-> TRUE, host |-> "", dir |-> ""]
CodebaseOf(host, dir) == [empty |-> FALSE, host |-> host, dir |-> dir]

\* One jar in one resource group for every platform, an application block.
SingleJarDoc ==
    Jnlp(CodebaseOf("h", "/app"),
         <<Resource("", "", <<"x.jar">>, <<>>, <<>>, <<>>, <<>>)>>,
         <<>>, "Main", <<>>, "", <<>>)

\* A jar, an extension and a native library; the extension has a jar.
WithExtensionDoc ==
    Jnlp(CodebaseOf("h", "/app"),
         <<Resource("", "", <<"a.jar">>, <<"ext.jnlp">>, <<"n.zip">>, <<>>, <<>>)>>,
         <<>>, "Main", <<"-v">>, "", <<>>)
ExtensionDoc ==
    Jnlp(NoCodebase,
         <<Resource("", "", <<"e.jar">>, <<>>, <<>>, <<"64m">>, <<>>)>>,
         <<>>, "", <<>>, "", <<>>)

\* A jar whose href does not parse, before another jar and a native library.
BadHrefDoc ==
    Jnlp(CodebaseOf("h", "/app"),
         <<Resource("", "", <<"%zz.jar", "b.jar">>, <<>>, <<"n.zip">>, <<>>, <<>>)>>,
         <<>>, "Main", <<>>, "", <<>>)

\* A codebase on another host: the jar and the extension are fetched from
\* there. The extension has a jar, a heap hint and a private JRE.
CrossHostDoc ==
    Jnlp(CodebaseOf("cdn", "/lib"),
         <<Resource("", "", <<"a.jar">>, <<"ext.jnlp">>, <<>>, <<>>, <<>>)>>,
         <<>>, "Main", <<>>, "", <<>>)
CdnExtensionDoc ==
    Jnlp(NoCodebase,
         <<Resource("", "", <<"e.jar">>, <<>>, <<>>, <<"64m">>, <<>>)>>,
         <<PrivateJre("", "", "jre.exe")>>, "", <<>>, "", <<>>)

\* Platform filters, heap hints, a private JRE, both launch blocks.
PlatformDoc ==
    Jnlp(NoCodebase,
         <<Resource("Windows", "", <<"w.jar">>, <<>>, <<>>, <<"1g">>, <<>>),
           Resource("linux", "AMD64", <<"l.jar">>, <<>>, <<>>, <<"512m", "">>, <<"256m">>)>>,
         <<PrivateJre("Linux", "amd64", "bin/jre.exe"), PrivateJre("windows", "", "jre.exe")>>,
         "Main", <<"a1">>, "Applet", <<"p1">>)

\* An applet block only, with two parameters; an application block with two
\* arguments beside an applet block.
AppletDoc ==
    Jnlp(NoCodebase,
         <<Resource("", "", <<"x.jar">>, <<>>, <<>>, <<>>, <<>>)>>,
         <<>>, "", <<>>, "Applet", <<"p1", "p2">>)
BothBlocksDoc ==
    Jnlp(NoCodebase,
         <<Resource("", "", <<"x.jar">>, <<>>, <<>>, <<>>, <<>>)>>,
         <<>>, "Main", <<"a1", "a2">>, "Applet", <<"p1", "p2">>)

\* A j2se element with a heap hint before one without, and no java element.
HeapDoc ==
    Jnlp(NoCodebase,
         <<Resource("", "", <<"x.jar">>, <<>>, <<>>, <<"512m", "">>, <<>>)>>,
         <<>>, "Main", <<>>, "", <<>>)

\* One resource group with a platform filter: a jar, a native library and a
\* heap hint.
FilterDoc(os, arch) ==
    Jnlp(NoCodebase,
         <<Resource(os, arch, <<"f.jar">>, <<>>, <<"n.zip">>, <<"32m">>, <<>>)>>,
         <<>>, "Main", <<>>, "", <<>>)

\* The values of runtime.GOOS, of the flag -arch and of the attributes os
\* and arch of a resource group that the filter is run on.
FilterGoos == {"linux", "windows", "darwin", "freebsd"}
FilterArchFlags == {"amd64", "x86"}
FilterOs == {"", "linux", "LINUX", "Windows", "Mac OS X"}
FilterArch == {"", "amd64", "AMD64", "x86"}

\* What a run is given: runtime.GOOS, the flags -arch and -jre, and the
\* descriptors the network serves, by address.
Site(goos, arch, jre, docs) == [goos |-> goos, arch |-> arch, jre |-> jre, docs |-> docs]

Sites ==
    { Site("linux", "amd64", "", URLString(RootAddress) :> SingleJarDoc),
      Site("linux", "amd64", "",
           (URLString(RootAddress) :> WithExtensionDoc)
           @@ (URLString(ExtAddress) :> ExtensionDoc)),
      Site("linux", "amd64", "",
           (URLString(RootAddress) :> CrossHostDoc)
           @@ (URLString(CdnExtAddress) :> CdnExtensionDoc)),
      Site("windows", "amd64", "", URLString(RootAddress) :> BadHrefDoc),
      Site("linux", "amd64", "", URLString(RootAddress) :> AppletDoc),
      Site("linux", "amd64", "", URLString(RootAddress) :> HeapDoc),
      Site("linux", "amd64", "", URLString(RootAddress) :> BothBlocksDoc),
      Site("linux", "amd64", "", URLString(RootAddress) :> PlatformDoc),
      Site("windows", "x86", "/opt/jre/bin/java", URLString(RootAddress) :> PlatformDoc) }
    \cup { Site(goos, archFlag, "", URLString(RootAddress) :> FilterDoc(os, arch)) :
               goos \in FilterGoos, archFlag \in FilterArchFlags,
               os \in FilterOs, arch \in FilterArch }

(***************************************************************************)
(* runJnlp: the walk over one descriptor.                                  *)
(***************************************************************************)

\* One iteration of a loop of runJnlp: a jar, an extension or a native
\* library of an active resource group, the header block of an active
\* group, or a private JRE the platform matches.
Item(kind, href, j2se, java, arch) ==
    [kind |-> kind, href |-> href, j2se |-> j2se, java |-> java, arch |-> arch]

\* A mutant of ResourceActive: the filters are compared with the case they
\* have after title-casing.
ResourceActiveExact(resource, archFlag, os) ==
    LET rArch == IF resource.arch # "" THEN Title(resource.arch) ELSE resource.arch
        rOs == IF resource.os # "" THEN ToTitle(resource.os) ELSE resource.os
    IN /\ (rArch = "" \/ rArch = archFlag)
       /\ (rOs = "" \/ rOs = os)

\* Is the resource relevant for the architecture and the OS? The filters
\* are title-cased first.
ResourceActive(resource, archFlag, os) ==
    LET rArch == IF resource.arch # "" THEN Title(resource.arch) ELSE resource.arch
        rOs == IF resource.os # "" THEN ToTitle(resource.os) ELSE resource.os
    IN /\ (rArch = "" \/ CompareIgnoreCase(rArch, archFlag))
       /\ (rOs = "" \/ CompareIgnoreCase(rOs, os))

\* Is the private JRE relevant for the architecture and the OS?
JreActive(jre, archFlag, os) ==
    /\ (jre.arch = "" \/ CompareIgnoreCase(jre.arch, archFlag))
    /\ (jre.os = "" \/ CompareIgnoreCase(jre.os, os))

\* The iterations of one active resource group, in the order of the code:
\* jars, extensions, native libraries, then the header block.
ResourceItems(r) ==
    [i \in 1..Len(r.jars) |-> Item("jar", r.jars[i], <<>>, <<>>, "")]
    \o [i \in 1..Len(r.extensions) |-> Item("extension", r.extensions[i], <<>>, <<>>, "")]
    \o [i \in 1..Len(r.nativelibs) |-> Item("nativelib", r.nativelibs[i], <<>>, <<>>, "")]
    \o <<Item("header", "", r.j2se, r.java, "")>>

\* for _, resource := range jnlp.Resources
RECURSIVE ResourceLoop(_, _, _)
ResourceLoop(resources, archFlag, os) ==
    IF resources = <<>> THEN <<>>
    ELSE (IF ResourceActive(Head(resources), archFlag, os)
          THEN ResourceItems(Head(resources)) ELSE <<>>)
         \o ResourceLoop(Tail(resources), archFlag, os)

\* for _, jre := range jnlp.PrivateJres
RECURSIVE JreLoop(_, _, _)
JreLoop(jres, archFlag, os) ==
    IF jres = <<>> THEN <<>>
    ELSE (IF JreActive(Head(jres), archFlag, os)
          THEN <<Item("jre", Head(jres).href, <<>>, <<>>, Head(jres).arch)>> ELSE <<>>)
         \o JreLoop(Tail(jres), archFlag, os)

\* All iterations runJnlp goes through for a descriptor, in order.
Plan(doc, archFlag, os) ==
    ResourceLoop(doc.resources, archFlag, os) \o JreLoop(doc.privateJres, archFlag, os)

\* The header block: the last j2se element sets maxheapsize; when
\* maxheapsize is then empty, the last java element sets it.
HeaderHeap(current, j2se, java) ==
    LET a == IF j2se = <<>> THEN current ELSE j2se[Len(j2se)]
    IN IF a = "" THEN (IF java = <<>> THEN a ELSE java[Len(java)]) ELSE a

\* An invocation of runJnlp(address, doHeader, channelError) at its start.
Invocation(address, doHeader) ==
    [address |-> address, doHeader |-> doHeader, pc |-> "get", st |-> "add",
     k |-> 1, plan |-> <<>>, ret |-> "none", status |-> 0]

\* A call of runResource(wg, url, path, doUnzip, doExtract, channelError)
\* at its start; the cache directory holds no file yet.
Task(n, item, url, path, doUnzip, doExtract) ==
    [inv |-> n, kind |-> item.kind, href |-> item.href, url |-> URLString(url),
     path |-> path, doUnzip |-> doUnzip, doExtract |-> doExtract, pc |-> "download",
     file |-> NoFile, unzipped |-> FALSE, extracted |-> FALSE, err |-> "nil",
     heads |-> 0, gets |-> 0]

\* An error added to the ChannelError: the descriptor it arose for, the
\* href it arose for ("" for the descriptor itself) and the failing step.
Error(address, href, what) ==
    [doc |-> URLString(address), ref |-> href, what |-> what]

\* channelError.Add(err)
Add(errs, e) == Append(errs, e)

\* channelError.Exists()
Exists(errs) == Len(errs) > 0

\* The goroutine of invocation n may take a step: the process lives, and
\* the root invocation runs inside run().
Runs(n) ==
    /\ n \in 1..Len(invs)
    /\ exitCode = "running"
    /\ n = 1 => runPc = "runJnlp"

\* The descriptor iteration invocation n is at.
AtItem(n, kinds, st) ==
    /\ Runs(n)
    /\ invs[n].pc = "walk"
    /\ invs[n].k <= Len(invs[n].plan)
    /\ invs[n].plan[invs[n].k].kind \in kinds
    /\ invs[n].st = st

\* return nil
ReturnNil(n) == [invs EXCEPT ![n].pc = "returned", ![n].ret = "nil"]

\* The next iteration.
NextItem(n) == [invs EXCEPT ![n].k = @ + 1, ![n].st = "add"]

\* A mutant of StatusAccepted: the status of the response is not checked.
StatusAcceptedAlways(status) == TRUE

\* response.StatusCode != http.StatusOK ends the process; this is the
\* negation of that test.
StatusAccepted(status) == status = StatusOK

\* client.Get(address) up to decoder.Decode(&jnlp): the descriptor is
\* fetched, read, its status checked, and it is decoded. The failing step
\* and the status of the response are the environment's. url.Parse(address)
\* cannot fail once client.Get has accepted the same string. A status other
\* than 200 ends the process with os.Exit(1).
FetchJnlp(n) ==
    /\ Runs(n)
    /\ invs[n].pc = "get"
    /\ LET address == invs[n].address IN
       \E fail \in {"get", "read", "decode", "none"}, status \in Statuses :
          IF fail = "get"
          THEN /\ channelError' = Add(channelError, Error(address, "", "get"))
               /\ invs' = ReturnNil(n)
               /\ UNCHANGED exitCode
          ELSE IF fail = "read"
          THEN /\ channelError' = Add(channelError, Error(address, "", "read"))
               /\ invs' = [ReturnNil(n) EXCEPT ![n].status = status]
               /\ UNCHANGED exitCode
          ELSE IF ~StatusAccepted(status)
          THEN /\ exitCode' = "1"
               /\ invs' = [invs EXCEPT ![n].pc = "exit", ![n].status = status]
               /\ UNCHANGED channelError
          ELSE IF fail = "decode"
          THEN /\ channelError' = Add(channelError, Error(address, "", "decode"))
               /\ invs' = [ReturnNil(n) EXCEPT ![n].status = status]
               /\ UNCHANGED exitCode
          ELSE /\ URLString(address) \in DOMAIN site.docs
               /\ invs' = [invs EXCEPT ![n].pc = "walk", ![n].status = status,
                             ![n].plan = Plan(site.docs[URLString(address)],
                                              site.arch, operatingsystem)]
               /\ UNCHANGED <<channelError, exitCode>>
    /\ UNCHANGED <<cacheVars, site, runPc, tasks, wg, mutex, jars, nativelibs,
                   maxheapsize, jrepath, operatingsystem, command>>

\* The codebase of invocation n.
CodebaseAt(n) == Codebase(site.docs[URLString(invs[n].address)], invs[n].address)

\* The resolved URL of the item invocation n is at.
RefAt(n) == ParseRef(CodebaseAt(n), invs[n].plan[invs[n].k].href)

\* A jar or a native library: wg.Add(1), then the path and the URL; an
\* href that does not parse adds an error and returns nil.
AddArtifact(n) ==
    /\ AtItem(n, {"jar", "nativelib"}, "add")
    /\ wg' = wg + 1
    /\ IF RefAt(n).ok
       THEN /\ invs' = [invs EXCEPT ![n].st = "lock"]
            /\ UNCHANGED channelError
       ELSE /\ channelError' = Add(channelError,
                  Error(invs[n].address, invs[n].plan[invs[n].k].href, "url"))
            /\ invs' = ReturnNil(n)
    /\ UNCHANGED <<cacheVars, site, runPc, tasks, mutex, jars, nativelibs,
                   maxheapsize, jrepath, operatingsystem, command, exitCode>>

\* mutex.Lock()
LockMutex(n) ==
    /\ AtItem(n, {"jar", "nativelib", "jre"}, "lock")
    /\ mutex = 0
    /\ mutex' = n
    /\ invs' = [invs EXCEPT ![n].st = "locked"]
    /\ UNCHANGED <<cacheVars, site, runPc, tasks, wg, jars, nativelibs, maxheapsize,
                   jrepath, operatingsystem, channelError, command, exitCode>>

\* The path is appended to jars (a jar) or its directory to nativelibs (a
\* native library), the mutex is unlocked, and runResource is started as a
\* goroutine.
AppendAndGo(n) ==
    /\ AtItem(n, {"jar", "nativelib"}, "locked")
    /\ LET item == invs[n].plan[invs[n].k]
           appPath == AppPath(invs[n].address)
           path == FilepathJoin(appPath, item.href)
       IN /\ IF item.kind = "jar"
             THEN /\ jars' = StringsJoin(jars, <<path>>, ListSeparator)
                  /\ UNCHANGED nativelibs
             ELSE /\ nativelibs' = StringsJoin(nativelibs,
                                       <<FilepathDir(appPath, item.href)>>, ListSeparator)
                  /\ UNCHANGED jars
          /\ tasks' = Append(tasks, Task(n, item, RefAt(n).url, path,
                                         item.kind = "nativelib", FALSE))
    /\ mutex' = 0
    /\ invs' = NextItem(n)
    /\ UNCHANGED <<cacheVars, site, runPc, wg, maxheapsize, jrepath, operatingsystem,
                   channelError, command, exitCode>>

\* An extension: its URL, then runJnlp as a goroutine, with no wg.Add.
GoExtension(n) ==
    /\ AtItem(n, {"extension"}, "add")
    /\ IF RefAt(n).ok
       THEN /\ invs' = Append(NextItem(n), Invocation(RefAt(n).url, FALSE))
            /\ UNCHANGED channelError
       ELSE /\ channelError' = Add(channelError,
                  Error(invs[n].address, invs[n].plan[invs[n].k].href, "url"))
            /\ invs' = ReturnNil(n)
    /\ UNCHANGED <<cacheVars, site, runPc, tasks, wg, mutex, jars, nativelibs,
                   maxheapsize, jrepath, operatingsystem, command, exitCode>>

\* A mutant of Header: doHeader is not tested.
HeaderAlways(n) ==
    /\ AtItem(n, {"header"}, "add")
    /\ LET item == invs[n].plan[invs[n].k] IN
       maxheapsize' = HeaderHeap(maxheapsize, item.j2se, item.java)
    /\ invs' = NextItem(n)
    /\ UNCHANGED <<cacheVars, site, runPc, tasks, wg, mutex, jars, nativelibs,
                   jrepath, operatingsystem, channelError, command, exitCode>>

\* if doHeader: maxheapsize from the j2se and java elements of the group.
Header(n) ==
    /\ AtItem(n, {"header"}, "add")
    /\ LET item == invs[n].plan[invs[n].k] IN
       maxheapsize' = IF invs[n].doHeader
                      THEN HeaderHeap(maxheapsize, item.j2se, item.java)
                      ELSE maxheapsize
    /\ invs' = NextItem(n)
    /\ UNCHANGED <<cacheVars, site, runPc, tasks, wg, mutex, jars, nativelibs,
                   jrepath, operatingsystem, channelError, command, exitCode>>

\* jre.Path = filepath.Join(jnlpPath, jre.Arch, filename)
JrePath(n) ==
    LET item == invs[n].plan[invs[n].k] IN
    FilepathJoin(FilepathJoin(JnlpPath(invs[n].address), item.arch),
                 JreFilename(item.href))

\* The call runResource(&wg, jre.URL.String(), jre.Path, false, true, ...)
\* made by invocation n itself.
JreTask(n) == Task(n, invs[n].plan[invs[n].k], RefAt(n).url, JrePath(n), FALSE, TRUE)

\* A private JRE: wg.Add(1), then the path and the URL; the root goes on to
\* set *jrepath, an extension calls runResource at once.
AddJre(n) ==
    /\ AtItem(n, {"jre"}, "add")
    /\ wg' = wg + 1
    /\ IF ~RefAt(n).ok
       THEN /\ channelError' = Add(channelError,
                  Error(invs[n].address, invs[n].plan[invs[n].k].href, "url"))
            /\ invs' = ReturnNil(n)
            /\ UNCHANGED tasks
       ELSE /\ UNCHANGED channelError
            /\ IF invs[n].doHeader
               THEN /\ invs' = [invs EXCEPT ![n].st = "lock"]
                    /\ UNCHANGED tasks
               ELSE /\ invs' = [invs EXCEPT ![n].st = "resource"]
                    /\ tasks' = Append(tasks, JreTask(n))
    /\ UNCHANGED <<cacheVars, site, runPc, mutex, jars, nativelibs, maxheapsize,
                   jrepath, operatingsystem, command, exitCode>>

\* *jrepath = filepath.Join(filepath.Dir(jre.Path), "bin", "javaw") under
\* the mutex, then the call of runResource.
SetJrePath(n) ==
    /\ AtItem(n, {"jre"}, "locked")
    /\ LET item == invs[n].plan[invs[n].k]
           dir == FilepathDir(FilepathJoin(JnlpPath(invs[n].address), item.arch),
                              JreFilename(item.href))
       IN jrepath' = FilepathJoin(FilepathJoin(dir, "bin"), "javaw")
    /\ mutex' = 0
    /\ tasks' = Append(tasks, JreTask(n))
    /\ invs' = [invs EXCEPT ![n].st = "resource"]
    /\ UNCHANGED <<cacheVars, site, runPc, wg, jars, nativelibs, maxheapsize,
                   operatingsystem, channelError, command, exitCode>>

\* A mutant of JreReturned: runResource is not waited for, as if it were
\* started with go.
JreReturnedEarly(n) ==
    /\ AtItem(n, {"jre"}, "resource")
    /\ invs' = NextItem(n)
    /\ UNCHANGED <<cacheVars, site, runPc, tasks, wg, mutex, jars, nativelibs,
                   maxheapsize, jrepath, operatingsystem, channelError, command, exitCode>>

\* The runResource call of invocation n for its private JRE has returned.
JreReturned(n) ==
    /\ AtItem(n, {"jre"}, "resource")
    /\ \E t \in 1..Len(tasks) :
          /\ tasks[t].inv = n
          /\ tasks[t].kind = "jre"
          /\ tasks[t].href = invs[n].plan[invs[n].k].href
          /\ tasks[t].pc = "done"
    /\ invs' = NextItem(n)
    /\ UNCHANGED <<cacheVars, site, runPc, tasks, wg, mutex, jars, nativelibs,
                   maxheapsize, jrepath, operatingsystem, channelError, command, exitCode>>

\* return &jnlp
ReturnJnlp(n) ==
    /\ Runs(n)
    /\ invs[n].pc = "walk"
    /\ invs[n].k > Len(invs[n].plan)
    /\ invs' = [invs EXCEPT ![n].pc = "returned", ![n].ret = "jnlp"]
    /\ UNCHANGED <<cacheVars, site, runPc, tasks, wg, mutex, jars, nativelibs,
                   maxheapsize, jrepath, operatingsystem, channelError, command, exitCode>>

(***************************************************************************)
(* runResource: download, then unzip and self-extraction.                  *)
(***************************************************************************)

\* The remote resource of an artifact.
ArtifactRemote == [len |-> MaxLen, declares |-> TRUE]

\* The outcomes of one download() of runResource; error pages are empty.
RunEnvs == {e \in Envs : e.errLen = 0}

\* The goroutine of runResource call t may take a step.
TaskAt(t, pc) ==
    /\ t \in 1..Len(tasks)
    /\ exitCode = "running"
    /\ tasks[t].pc = pc

\* A mutant of TaskDownload: the error is added and the call goes on to
\* unzip and self-extraction.
TaskDownloadGoesOn(t) ==
    /\ TaskAt(t, "download")
    /\ \E env \in RunEnvs :
          LET o == Download(tasks[t].file, ArtifactRemote, env) IN
          /\ channelError' = IF o.err # "nil"
                             THEN Add(channelError,
                                      Error(invs[tasks[t].inv].address, tasks[t].href, o.err))
                             ELSE channelError
          /\ tasks' = [tasks EXCEPT ![t].pc = "materialize", ![t].file = o.file,
                                    ![t].err = o.err, ![t].heads = o.heads,
                                    ![t].gets = o.gets]
    /\ UNCHANGED <<cacheVars, site, runPc, invs, wg, mutex, jars, nativelibs,
                   maxheapsize, jrepath, operatingsystem, command, exitCode>>

\* err := download(url, path); an error is added and the call returns.
TaskDownload(t) ==
    /\ TaskAt(t, "download")
    /\ \E env \in RunEnvs :
          LET o == Download(tasks[t].file, ArtifactRemote, env) IN
          IF o.err # "nil"
          THEN /\ channelError' = Add(channelError,
                     Error(invs[tasks[t].inv].address, tasks[t].href, o.err))
               /\ tasks' = [tasks EXCEPT ![t].pc = "deferred", ![t].file = o.file,
                                         ![t].err = o.err, ![t].heads = o.heads,
                                         ![t].gets = o.gets]
          ELSE /\ tasks' = [tasks EXCEPT ![t].pc = "materialize", ![t].file = o.file,
                                         ![t].heads = o.heads, ![t].gets = o.gets]
               /\ UNCHANGED channelError
    /\ UNCHANGED <<cacheVars, site, runPc, invs, wg, mutex, jars, nativelibs,
                   maxheapsize, jrepath, operatingsystem, command, exitCode>>

\* runUnzip when doUnzip or the path ends in .zip, then runSelfextract when
\* doExtract or the path ends in .exe; the first error is added and ends
\* the call. A file that does not exist can be neither opened nor run.
TaskMaterialize(t) ==
    /\ TaskAt(t, "materialize")
    /\ LET doUnzip == tasks[t].doUnzip \/ HasSuffixZip(tasks[t].href)
           doExtract == tasks[t].doExtract \/ HasSuffixExe(tasks[t].href)
           address == invs[tasks[t].inv].address
           missing == ~tasks[t].file.exists
       IN \E unzipErr \in {e \in BOOLEAN : (e => doUnzip) /\ (doUnzip /\ missing => e)},
             extractErr \in {e \in BOOLEAN : (e => doExtract) /\ (doExtract /\ missing => e)} :
             IF unzipErr
             THEN /\ channelError' = Add(channelError, Error(address, tasks[t].href, "unzip"))
                  /\ tasks' = [tasks EXCEPT ![t].pc = "deferred", ![t].unzipped = TRUE,
                                            ![t].err = "unzip"]
             ELSE IF extractErr
             THEN /\ channelError' = Add(channelError, Error(address, tasks[t].href, "extract"))
                  /\ tasks' = [tasks EXCEPT ![t].pc = "deferred", ![t].unzipped = doUnzip,
                                            ![t].extracted = TRUE, ![t].err = "extract"]
             ELSE /\ tasks' = [tasks EXCEPT ![t].pc = "deferred", ![t].unzipped = doUnzip,
                                            ![t].extracted = doExtract]
                  /\ UNCHANGED channelError
    /\ UNCHANGED <<cacheVars, site, runPc, invs, wg, mutex, jars, nativelibs,
                   maxheapsize, jrepath, operatingsystem, command, exitCode>>

\* defer wg.Done()
TaskDone(t) ==
    /\ TaskAt(t, "deferred")
    /\ wg' = wg - 1
    /\ tasks' = [tasks EXCEPT ![t].pc = "done"]
    /\ UNCHANGED <<cacheVars, site, runPc, invs, mutex, jars, nativelibs, maxheapsize,
                   jrepath, operatingsystem, channelError, command, exitCode>>

(***************************************************************************)
(* SpecResource: one call of runResource, for a file the cache may hold    *)
(* from an earlier run.                                                    *)
(***************************************************************************)

\* The calls runJnlp makes: a jar with no flag, a native library with
\* doUnzip, a private JRE with doExtract; the href is the descriptor's.
ResourceCalls ==
    {[kind |-> "jar", doUnzip |-> FALSE, doExtract |-> FALSE],
     [kind |-> "nativelib", doUnzip |-> TRUE, doExtract |-> FALSE],
     [kind |-> "jre", doUnzip |-> FALSE, doExtract |-> TRUE]}
ResourceHrefs == {"x.jar", "n.zip", "jre.exe"}

\* runJnlp, called by run(), has done wg.Add(1) and started one call of
\* runResource; the file of the path is any file of an earlier run.
InitResource ==
    /\ site = "none"
    /\ runPc = "runJnlp"
    /\ invs = <<[Invocation(RootAddress, TRUE) EXCEPT !.pc = "walk", !.status = StatusOK]>>
    /\ \E c \in ResourceCalls, href \in ResourceHrefs, f \in InitialFiles(ArtifactRemote) :
          tasks = <<[Task(1, Item(c.kind, href, <<>>, <<>>, ""),
                          ParseRef(CodebaseOf("h", "/app"), href).url,
                          FilepathJoin(AppPath(RootAddress), href),
                          c.doUnzip, c.doExtract) EXCEPT !.file = f]>>
    /\ wg = 1
    /\ mutex = 0
    /\ jars = <<>>
    /\ nativelibs = <<>>
    /\ maxheapsize = ""
    /\ jrepath = "java"
    /\ operatingsystem = "LINUX"
    /\ channelError = <<>>
    /\ command = <<>>
    /\ exitCode = "running"
    /\ cfile = NoFile
    /\ srv = ArtifactRemote
    /\ calls = <<>>

NextResource ==
    \/ \E t \in 1..Len(tasks) : TaskDownload(t)
    \/ \E t \in 1..Len(tasks) : TaskMaterialize(t)
    \/ \E t \in 1..Len(tasks) : TaskDone(t)

SpecResource == InitResource /\ [][NextResource]_vars

(***************************************************************************)
(* run()                                                                   *)
(***************************************************************************)

\* switch runtime.GOOS
OperatingSystem(goos) ==
    CASE goos = "linux" -> ToTitle("Linux")
      [] goos = "windows" -> ToTitle("Windows")
      [] goos = "darwin" -> ToTitle("Mac OS X")
      [] OTHER -> ""

\* The fallback of *jrepath when no -jre is given.
DefaultJre(goos) == IF goos = "windows" THEN "javaw" ELSE "java"

\* The state when run() is entered with the URL of a descriptor.
Init ==
    /\ site \in Sites
    /\ runPc = "start"
    /\ invs = <<>>
    /\ tasks = <<>>
    /\ wg = 0
    /\ mutex = 0
    /\ jars = <<>>
    /\ nativelibs = <<>>
    /\ maxheapsize = ""
    /\ jrepath = site.jre
    /\ operatingsystem = ""
    /\ channelError = <<>>
    /\ command = <<>>
    /\ exitCode = "running"
    /\ cfile = NoFile
    /\ srv = ArtifactRemote
    /\ calls = <<>>

\* The cache directory is checked and created, operatingsystem and the
\* default of *jrepath are set, and runJnlp(*address, true, ...) is called.
RunSetup ==
    /\ runPc = "start"
    /\ exitCode = "running"
    /\ \E cacheErr \in BOOLEAN :
          IF cacheErr
          THEN /\ runPc' = "returned"
               /\ exitCode' = "1"
               /\ UNCHANGED <<operatingsystem, jrepath, invs>>
          ELSE /\ operatingsystem' = OperatingSystem(site.goos)
               /\ jrepath' = IF jrepath = "" THEN DefaultJre(site.goos) ELSE jrepath
               /\ invs' = <<Invocation(RootAddress, TRUE)>>
               /\ runPc' = "runJnlp"
               /\ UNCHANGED exitCode
    /\ UNCHANGED <<cacheVars, site, tasks, wg, mutex, jars, nativelibs, maxheapsize,
                   channelError, command>>

\* runJnlp has returned and wg.Wait() returns: the counter is zero.
RunJoin ==
    /\ runPc = "runJnlp"
    /\ exitCode = "running"
    /\ invs[1].pc = "returned"
    /\ wg = 0
    /\ runPc' = "check"
    /\ UNCHANGED <<cacheVars, site, invs, tasks, wg, mutex, jars, nativelibs, maxheapsize,
                   jrepath, operatingsystem, channelError, command, exitCode>>

\* if channelError.Exists() { return channelError.Get() }
RunCheck ==
    /\ runPc = "check"
    /\ exitCode = "running"
    /\ IF Exists(channelError)
       THEN runPc' = "returned" /\ exitCode' = "1"
       ELSE runPc' = "assemble" /\ UNCHANGED exitCode
    /\ UNCHANGED <<cacheVars, site, invs, tasks, wg, mutex, jars, nativelibs, maxheapsize,
                   jrepath, operatingsystem, channelError, command>>

\* A mutant of EntryPoint: the applet block is taken when it has a main
\* class.
EntryPointApplet(doc) ==
    IF doc.appletMain # "" THEN <<doc.appletMain>> \o doc.appletParams
    ELSE <<doc.appMain>> \o doc.appArgs

\* The main class and the arguments: the application block when it has a
\* main class, the applet block otherwise.
EntryPoint(doc) ==
    IF doc.appMain # "" THEN <<doc.appMain>> \o doc.appArgs
    ELSE <<doc.appletMain>> \o doc.appletParams

\* cmds, from maxheapsize, nativelibs, jars and the descriptor.
Cmds(heap, libs, cp, doc) ==
    (IF heap # "" THEN <<"-Xmx" \o heap>> ELSE <<>>)
    \o (IF Render(libs) # "" THEN <<"-Djava.library.path=" \o Render(libs)>> ELSE <<>>)
    \o <<"-cp", Render(cp)>>
    \o EntryPoint(doc)

\* The command line is built: exec.Command(*jrepath, cmds...). Reading a
\* nil descriptor panics.
RunAssemble ==
    /\ runPc = "assemble"
    /\ exitCode = "running"
    /\ IF invs[1].ret = "jnlp"
       THEN /\ command' = <<jrepath>> \o Cmds(maxheapsize, nativelibs, jars,
                                             site.docs[URLString(invs[1].address)])
            /\ runPc' = "start_cmd"
            /\ UNCHANGED exitCode
       ELSE /\ runPc' = "panic"
            /\ exitCode' = "2"
            /\ UNCHANGED command
    /\ UNCHANGED <<cacheVars, site, invs, tasks, wg, mutex, jars, nativelibs, maxheapsize,
                   jrepath, operatingsystem, channelError>>

\* err = cmd.Start()
RunStart ==
    /\ runPc = "start_cmd"
    /\ exitCode = "running"
    /\ \E started \in BOOLEAN : runPc' = IF started THEN "started" ELSE "start_failed"
    /\ UNCHANGED <<cacheVars, site, invs, tasks, wg, mutex, jars, nativelibs, maxheapsize,
                   jrepath, operatingsystem, channelError, command, exitCode>>

\* return err: the process ends, and its goroutines with it.
RunReturn ==
    /\ runPc \in {"started", "start_failed"}
    /\ exitCode = "running"
    /\ exitCode' = IF runPc = "started" THEN "0" ELSE "1"
    /\ UNCHANGED <<cacheVars, site, runPc, invs, tasks, wg, mutex, jars, nativelibs,
                   maxheapsize, jrepath, operatingsystem, channelError, command>>

Next ==
    \/ RunSetup
    \/ RunJoin
    \/ RunCheck
    \/ RunAssemble
    \/ RunStart
    \/ RunReturn
    \/ \E n \in 1..Len(invs) : FetchJnlp(n)
    \/ \E n \in 1..Len(invs) : AddArtifact(n)
    \/ \E n \in 1..Len(invs) : LockMutex(n)
    \/ \E n \in 1..Len(invs) : AppendAndGo(n)
    \/ \E n \in 1..Len(invs) : GoExtension(n)
    \/ \E n \in 1..Len(invs) : Header(n)
    \/ \E n \in 1..Len(invs) : AddJre(n)
    \/ \E n \in 1..Len(invs) : SetJrePath(n)
    \/ \E n \in 1..Len(invs) : JreReturned(n)
    \/ \E n \in 1..Len(invs) : ReturnJnlp(n)
    \/ \E t \in 1..Len(tasks) : TaskDownload(t)
    \/ \E t \in 1..Len(tasks) : TaskMaterialize(t)
    \/ \E t \in 1..Len(tasks) : TaskDone(t)

Spec == Init /\ [][Next]_vars

(***************************************************************************)
(* Claims about the Cache Reconciler, checked under SpecCache.             *)
(***************************************************************************)

\* C4 (as claimed): whenever download() returns nil, the local file exists
\* and its length is the Content-Length the remote resource declares,
\* whatever the state of the local file was, a failing existence check
\* included.
C4_ReturnsNilImpliesCurrent ==
    \A i \in 1..Len(calls) :
        (srv.declares /\ calls[i].out.err = "nil")
            => /\ calls[i].out.file.exists
               /\ calls[i].out.file.len = ParseContentLength(HeadContentLength(srv))

\* C5 (as claimed): of two consecutive calls of download() that both return
\* nil, at most one issues a GET, and the second issues the HEAD probe only,
\* compares equal lengths and leaves the file as it was.
C5_SecondCallOnlyProbes ==
    \A i \in 1..(Len(calls) - 1) :
        (srv.declares /\ calls[i].out.err = "nil" /\ calls[i + 1].out.err = "nil")
            => /\ calls[i].out.gets + calls[i + 1].out.gets <= 1
               /\ calls[i + 1].out.heads = 1
               /\ calls[i + 1].out.gets = 0
               /\ calls[i + 1].out.compared
               /\ calls[i + 1].out.file = calls[i + 1].before

Joined == invs # <<>> /\ runPc \notin {"start", "runJnlp"}

\* The addresses of the extensions of the active groups of the descriptor
\* served at an address.
ExtensionAddresses(address) ==
    IF URLString(address) \notin DOMAIN site.docs THEN {}
    ELSE LET doc == site.docs[URLString(address)]
             plan == Plan(doc, site.arch, operatingsystem)
         IN {ParseRef(Codebase(doc, address), plan[k].href).url :
                k \in {j \in 1..Len(plan) : plan[j].kind = "extension"}}

\* The addresses of the descriptors reached from a set of addresses through
\* any depth of extension references.
RECURSIVE Reached(_, _)
Reached(frontier, seen) ==
    IF frontier \subseteq seen THEN seen
    ELSE Reached(UNION {ExtensionAddresses(a) : a \in frontier \ seen}, seen \cup frontier)

\* The jars and native libraries of the active groups of every descriptor
\* reached from the root descriptor.
ReachedArtifacts ==
    UNION { LET plan == Plan(site.docs[URLString(a)], site.arch, operatingsystem)
            IN {[doc |-> URLString(a), href |-> plan[k].href] :
                   k \in {j \in 1..Len(plan) : plan[j].kind \in {"jar", "nativelib"}}}
          : a \in {b \in Reached({RootAddress}, {}) : URLString(b) \in DOMAIN site.docs} }

\* The runResource call of an artifact has returned.
Finished(a) ==
    \E t \in 1..Len(tasks) :
        /\ tasks[t].href = a.href
        /\ URLString(invs[tasks[t].inv].address) = a.doc
        /\ tasks[t].pc = "done"

\* An error is recorded that accounts for an artifact: an error of its own,
\* or the failure of a descriptor fetch or of a URL resolution, which cut a
\* walk short.
ErrorRecordedFor(a) ==
    \E i \in 1..Len(channelError) :
        \/ channelError[i].doc = a.doc /\ channelError[i].ref = a.href
        \/ channelError[i].ref = ""
        \/ channelError[i].what = "url"

\* C1 (as claimed): once wg.Wait() has returned in run(), every jar and
\* native library of an active group of the root descriptor or of a
\* descriptor reached through extensions has finished its runResource call
\* or has an error recorded; none is unscheduled or in flight.
C1_JoinComplete ==
    Joined => \A a \in ReachedArtifacts : Finished(a) \/ ErrorRecordedFor(a)

\* C2 (as claimed): cmd.Start() is never reached with an error already
\* added to the ChannelError by a task of the run.
C2_NoLaunchOnError ==
    [][(runPc = "start_cmd" /\ runPc' = "started") => ~Exists(channelError)]_vars

\* C3 (as claimed): once an error has been added, the run goes on until it
\* ends, and it ends with the error returned (a non-zero exit): it is never
\* blocked for ever with every goroutine finished.
C3_RunEndsWithError ==
    Exists(channelError) => (exitCode \in {"1"} \/ (exitCode = "running" /\ ENABLED Next))

\* The elements of jars.
JarEntries == IF jars = <<>> THEN <<>> ELSE Elements(jars, "")

\* The runResource calls started for jars.
JarTasks == {t \in 1..Len(tasks) : tasks[t].kind = "jar"}

\* C7 (as claimed): when every runJnlp invocation has returned, jars holds
\* exactly one element per scheduled jar, its path, and no empty element.
C7_OneEntryPerJar ==
    (invs # <<>> /\ \A n \in 1..Len(invs) : invs[n].pc = "returned")
        => /\ Len(JarEntries) = Cardinality(JarTasks)
           /\ \A i \in 1..Len(JarEntries) : JarEntries[i] # ""
           /\ \A t \in JarTasks : \E i \in 1..Len(JarEntries) : JarEntries[i] = tasks[t].path

\* C8 (as claimed): for the descriptor with codebase http://h/app and the
\* one jar x.jar, jars is the one element <cacheRoot>/h/app/x.jar and the
\* command is java -cp <cacheRoot>/h/app/x.jar <mainClass>.
C8_SingleJarCommand ==
    (site.docs[URLString(RootAddress)] = SingleJarDoc /\ runPc = "started")
        => /\ JarEntries = <<FilepathJoin(CacheRoot, "h/app/x.jar")>>
           /\ command = <<"java", "-cp", FilepathJoin(CacheRoot, "h/app/x.jar"), "Main">>

\* C9 (as claimed): a runResource call whose GET was answered with a status
\* other than 200 has, when it returns, added an error and called neither
\* runUnzip nor runSelfextract, and the child process is not started.
C9_BadStatusIsAnError ==
    \A t \in 1..Len(tasks) :
        tasks[t].file.src = "errpage"
            => /\ runPc # "started"
               /\ tasks[t].pc = "done"
                    => /\ tasks[t].err # "nil"
                       /\ ~tasks[t].unzipped
                       /\ ~tasks[t].extracted

\* C10 (as claimed): an invocation of runJnlp that has returned went through
\* every reference of the active groups and every matching private JRE of
\* its descriptor, whatever failed on the way.
C10_FailureIsolation ==
    \A n \in 1..Len(invs) :
        invs[n].pc = "returned" => invs[n].k > Len(invs[n].plan)

\* The directory of the cache for a host.
HostDir(host) == CacheRoot \o "/" \o host

\* The local paths an artifact with the href and the kind of the task can
\* have under a directory of the cache: jars and native libraries under
\* app/, a private JRE under its architecture when it names one.
PathsUnder(dir, task) ==
    IF task.kind = "jre"
    THEN {dir \o "/" \o JreFilename(task.href)}
         \cup {dir \o "/" \o a \o "/" \o JreFilename(task.href) : a \in {"amd64", "x86"}}
    ELSE {dir \o "/app/" \o task.href}

\* C11 as stated: every artifact reached from the root, through extensions
\* too, has its local path under <cacheRoot>/<host of the root descriptor>.
C11_SharedCacheRoot ==
    \A t \in 1..Len(tasks) :
        tasks[t].path \in PathsUnder(HostDir(RootAddress.host), tasks[t])

\* C11 amended: every artifact has its local path under
\* <cacheRoot>/<host of the URL of the descriptor that references it>; the
\* artifacts of an extension on another host are under that host's directory.
C11_OwnCacheRoot ==
    \A t \in 1..Len(tasks) :
        tasks[t].path \in PathsUnder(HostDir(invs[tasks[t].inv].address.host), tasks[t])

\* An artifact of an extension on another host has been fetched.
C11_Witness ==
    \E t \in 1..Len(tasks) :
        /\ invs[tasks[t].inv].address.host # RootAddress.host
        /\ tasks[t].pc = "done"
        /\ tasks[t].err = "nil"

\* The resource groups of the descriptor invocation n was called for.
GroupsOf(n) ==
    IF URLString(invs[n].address) \in DOMAIN site.docs
    THEN site.docs[URLString(invs[n].address)].resources ELSE <<>>

\* The filter of a group as the claim states it: each of os and arch is
\* empty or equals, ignoring case, the name run() has for the running OS
\* and the configured architecture.
MatchesPlatform(g) ==
    /\ (g.os = "" \/ ToLower(g.os) = ToLower(operatingsystem))
    /\ (g.arch = "" \/ ToLower(g.arch) = ToLower(site.arch))

\* The hrefs of the jars and native libraries of a group.
GroupHrefs(g) ==
    {g.jars[i] : i \in 1..Len(g.jars)} \cup {g.nativelibs[i] : i \in 1..Len(g.nativelibs)}

\* The heap hints a group declares.
GroupHints(g) ==
    ({g.j2se[i] : i \in 1..Len(g.j2se)} \cup {g.java[i] : i \in 1..Len(g.java)}) \ {""}

\* A runResource call was started by invocation n for the href.
ScheduledFrom(n, href) ==
    \E t \in 1..Len(tasks) : tasks[t].inv = n /\ tasks[t].href = href

\* The non-empty elements of an accumulator.
Entries(acc) ==
    IF acc = <<>> THEN {}
    ELSE {Elements(acc, "")[i] : i \in 1..Len(Elements(acc, ""))} \ {""}

\* C12: a resource group's artifacts are scheduled iff its os filter is
\* empty or equals the running OS ignoring case and its arch filter is empty
\* or equals the configured architecture ignoring case: once the walk of a
\* descriptor has returned it, every artifact of a matching group has a
\* task; a group that does not match never has a task, an entry in an
\* accumulator or its heap hint taken, and every entry of an accumulator
\* belongs to a scheduled task.
C12_PlatformFilter ==
    /\ \A n \in 1..Len(invs) : \A i \in 1..Len(GroupsOf(n)) :
          LET g == GroupsOf(n)[i] IN
          /\ (invs[n].ret = "jnlp" /\ MatchesPlatform(g))
                => \A h \in GroupHrefs(g) : ScheduledFrom(n, h)
          /\ ~MatchesPlatform(g)
                => /\ \A h \in GroupHrefs(g) :
                         /\ ~ScheduledFrom(n, h)
                         /\ HostDir(invs[n].address.host) \o "/app/" \o h \notin Entries(jars)
                   /\ (n = 1 /\ runPc # "start") => maxheapsize \notin GroupHints(g)
    /\ \A e \in Entries(jars) :
          \E t \in 1..Len(tasks) : tasks[t].kind = "jar" /\ tasks[t].path = e
    /\ (Entries(nativelibs) # {})
          => \E t \in 1..Len(tasks) : tasks[t].kind = "nativelib"

\* The child process was started by a run whose only group names the
\* running OS but another architecture: nothing was scheduled.
C12_Witness ==
    /\ runPc = "started"
    /\ \E i \in 1..Len(GroupsOf(1)) :
          LET g == GroupsOf(1)[i] IN
          /\ g.os # "" /\ ToLower(g.os) = ToLower(operatingsystem)
          /\ ~MatchesPlatform(g)
          /\ GroupHrefs(g) # {}
    /\ tasks = <<>>
    /\ jars = <<>>
    /\ maxheapsize = ""

\* The descriptor at the address given to run().
RootDoc == site.docs[URLString(RootAddress)]

\* The elements of the command after -cp and the classpath.
AfterClasspath ==
    LET i == CHOOSE j \in 1..Len(command) : command[j] = "-cp"
    IN SubSeq(command, i + 2, Len(command))

\* C13: once the command is assembled, what follows the classpath is the
\* application's main class and its arguments in order when the application
\* block has a main class, and then no element of the command is the
\* applet's main class or one of its parameters; it is the applet's main
\* class and parameters only when the application's main class is empty.
C13_LaunchPrecedence ==
    command # <<>> =>
        /\ RootDoc.appMain # "" =>
              /\ AfterClasspath = <<RootDoc.appMain>> \o RootDoc.appArgs
              /\ RootDoc.appletMain # "" =>
                    \A i \in 1..Len(command) :
                        /\ command[i] # RootDoc.appletMain
                        /\ \A p \in 1..Len(RootDoc.appletParams) :
                              command[i] # RootDoc.appletParams[p]
        /\ RootDoc.appMain = "" =>
              AfterClasspath = <<RootDoc.appletMain>> \o RootDoc.appletParams

\* The child process was started for a descriptor with both blocks and two
\* arguments.
C13_Witness ==
    /\ runPc = "started"
    /\ RootDoc.appMain # ""
    /\ RootDoc.appletMain # ""
    /\ Len(RootDoc.appArgs) = 2
    /\ RootDoc.appletParams # <<>>

\* The fetch of the root descriptor was answered with a status other than
\* 200.
RootNotOK == Len(invs) >= 1 /\ invs[1].status \notin {0, StatusOK}

\* C14: when the fetch of the root descriptor is answered with a status
\* other than 200, the run ends with a non-zero exit status (it has, or it
\* still has a step to take and no other exit is possible), and up to the
\* fetch and ever after no task is scheduled, the counter of the WaitGroup
\* is 0, no accumulator has an entry, no extension is started and no command
\* is assembled or started.
C14_RootNotFound ==
    ((Len(invs) >= 1 /\ invs[1].pc = "get") \/ RootNotOK) =>
        /\ tasks = <<>>
        /\ wg = 0
        /\ jars = <<>>
        /\ nativelibs = <<>>
        /\ Len(invs) = 1
        /\ command = <<>>
        /\ runPc \notin {"assemble", "start_cmd", "started", "start_failed", "panic"}
        /\ RootNotOK => /\ exitCode \in {"running", "1"}
                        /\ (exitCode = "1" \/ ENABLED Next)

\* The root descriptor was answered with 404 and os.Exit(1) has ended the
\* process.
C14_Witness ==
    /\ RootNotOK
    /\ invs[1].pc = "exit"
    /\ exitCode = "1"

\* C15 (as claimed): no append to jars or nativelibs happens after run()
\* has read them to assemble the command: from the read on, both keep
\* their value. (The read is one step here; an append that overlaps it is
\* not told apart from one before or after it.)
C15_NoAppendAfterRead ==
    [][(runPc \in {"start_cmd", "started", "start_failed"})
          => (jars' = jars /\ nativelibs' = nativelibs)]_vars

\* The heap hints of the groups of the root descriptor that match the
\* platform.
RootHints ==
    UNION {GroupHints(RootDoc.resources[i]) :
              i \in {j \in 1..Len(RootDoc.resources) : MatchesPlatform(RootDoc.resources[j])}}

\* C16 (as claimed): the assembled command has an element -Xmx<heap>, for a
\* heap hint of a matching group of the root descriptor, exactly when some
\* matching group of the root descriptor declares a non-empty heap hint.
C16_HeapFlag ==
    command # <<>> =>
        ((RootHints # {})
            <=> \E i \in 1..Len(command) : command[i] \in {"-Xmx" \o h : h \in RootHints})

\* The step is one of the root invocation of runJnlp, the one called with
\* doHeader = true, and of no other invocation.
RootStep ==
    /\ Len(invs) >= 1
    /\ invs[1].doHeader
    /\ invs'[1] # invs[1]
    /\ \A n \in 2..Len(invs) : ~invs[n].doHeader /\ invs'[n] = invs[n]

\* The private JREs of the root descriptor whose os and arch are empty or
\* equal, ignoring case, the running OS and the configured architecture.
RootJres ==
    {RootDoc.privateJres[i] : i \in
        {j \in 1..Len(RootDoc.privateJres) : MatchesPlatform(RootDoc.privateJres[j])}}

\* The executable of a private JRE of the root descriptor.
JreExecutable(jre) ==
    HostDir(RootAddress.host) \o (IF jre.arch = "" THEN "" ELSE "/" \o jre.arch) \o "/bin/javaw"

\* C17: maxheapsize is written only by a step of the root invocation, to a
\* heap hint of a matching group of the root descriptor (or to the empty
\* value of its last j2se element); *jrepath is written only by run() before
\* runJnlp is called and by a step of the root invocation, to the executable
\* of a matching private JRE of the root descriptor. No step of an extension
\* invocation changes either.
C17_HeaderRootOnly ==
    [][/\ (maxheapsize' # maxheapsize)
            => (RootStep /\ maxheapsize' \in RootHints \cup {""})
       /\ (jrepath' # jrepath)
            => \/ runPc = "start"
               \/ RootStep /\ jrepath' \in {JreExecutable(j) : j \in RootJres}]_vars

\* An extension has walked its descriptor, which has a heap hint and a
\* private JRE, and has fetched the JRE; the heap hint and the executable
\* are those run() started with.
C17_Witness ==
    \E n \in 2..Len(invs) :
        /\ invs[n].ret = "jnlp"
        /\ \E i \in 1..Len(GroupsOf(n)) : GroupHints(GroupsOf(n)[i]) # {}
        /\ \E t \in 1..Len(tasks) :
              tasks[t].inv = n /\ tasks[t].kind = "jre" /\ tasks[t].pc = "done"
        /\ maxheapsize = ""
        /\ jrepath = DefaultJre(site.goos)

\* The runResource calls the root invocation made for private JREs.
RootJreTasks == {t \in 1..Len(tasks) : tasks[t].inv = 1 /\ tasks[t].kind = "jre"}

\* The call has returned: the download and the self-extraction were done
\* without error, or an error of the artifact is recorded.
Completed(t) ==
    /\ tasks[t].pc = "done"
    /\ \/ tasks[t].err = "nil" /\ tasks[t].extracted /\ tasks[t].file.exists
       \/ /\ tasks[t].err # "nil"
          /\ \E i \in 1..Len(channelError) :
                /\ channelError[i].doc = URLString(RootAddress)
                /\ channelError[i].ref = tasks[t].href
                /\ channelError[i].what = tasks[t].err

DownloadErrors == {"head", "size", "get", "mkdir", "store"}

\* C19: a step in which download returns an error adds exactly that one
\* error for the artifact and takes runResource to its deferred wg.Done()
\* with neither unzip nor self-extraction tried, whatever the flags and the
\* suffix; a failed HEAD has issued no GET and leaves the file as it was;
\* after the error nothing more is added, unzipped, extracted or stored, and
\* the counter of the WaitGroup goes down by one, once.
C19_FailedDownloadBlocks ==
    [][\A t \in 1..Len(tasks) :
          /\ (tasks[t].pc = "download" /\ tasks'[t].err \in DownloadErrors)
                => /\ channelError' = Append(channelError,
                          [doc |-> URLString(invs[tasks[t].inv].address),
                           ref |-> tasks[t].href, what |-> tasks'[t].err])
                   /\ tasks'[t].pc = "deferred"
                   /\ ~tasks'[t].unzipped /\ ~tasks'[t].extracted
                   /\ wg' = wg
                   /\ (tasks'[t].err = "head")
                         => (tasks'[t].gets = 0 /\ tasks'[t].file = tasks[t].file)
          /\ (tasks[t].err \in DownloadErrors)
                => /\ channelError' = channelError
                   /\ tasks'[t] = [tasks[t] EXCEPT !.pc = "done"]
                   /\ tasks[t].pc = "deferred"
                   /\ wg' = wg - 1]_vars

\* The HEAD for a file of an earlier run failed for a native library, which
\* is unzipped by flag and by suffix, and the call has returned.
C19_Witness ==
    /\ tasks[1].err = "head"
    /\ tasks[1].pc = "done"
    /\ tasks[1].doUnzip
    /\ HasSuffixZip(tasks[1].href)
    /\ tasks[1].file.exists
    /\ wg = 0
    /\ Len(channelError) = 1

\* run() is at or past the code that reads the descriptor runJnlp returned.
ReadsDescriptor == runPc \in {"assemble", "start_cmd", "started", "start_failed", "panic"}

\* The root runJnlp call returned nil.
RootReturnedNil == Len(invs) >= 1 /\ invs[1].ret = "nil"

\* When the root runJnlp call returned nil an error is recorded and run()
\* is not at the code that reads the descriptor; run() is there only with a
\* descriptor returned, and never dereferences nil.
NoNilDescriptorRead ==
    /\ RootReturnedNil => (Exists(channelError) /\ ~ReadsDescriptor /\ command = <<>>)
    /\ ReadsDescriptor => (invs[1].ret = "jnlp" /\ runPc # "panic")

\* C20 (as claimed): whenever the root runJnlp call returns nil an error has
\* been added, run() never reaches the code that reads the descriptor, and
\* run() returns the error after the join: it has ended with exit status 1
\* or still has a step to take.
C20_NoMissingDescriptor ==
    /\ NoNilDescriptorRead
    /\ RootReturnedNil => (exitCode = "1" \/ (exitCode = "running" /\ ENABLED Next))

====
